---- MODULE Spec2Model ----
(***************************************************************************)
(* Model of the logging subsystem of app/logger.js: caller resolution      *)
(* (getCallerInfo), error location extraction (getErrorLocation), the      *)
(* public logging operations and the fan-out of records to the three       *)
(* winston transports (error file, combined file, console), the timestamps *)
(* of the two formats, and the life of the process of app/index.js from    *)
(* its start to its exit on a signal.                                      *)
(*                                                                         *)
(* Strings are modelled as sequences of tokens.  A token stands for a run  *)
(* of characters that the code never splits: "/" is the separator, ".js"   *)
(* the extension, "42" a run of digits, "node_modules" a directory name.   *)
(* String operations (includes, startsWith, regular expression matching,   *)
(* path.relative) are computed on these sequences.                         *)
(***************************************************************************)
EXTENDS Integers, Sequences, FiniteSets, TLC

VARIABLES prepareStackTrace, logLevel, errorFile, combinedFile, console, last, probe, proc

vars == <<prepareStackTrace, logLevel, errorFile, combinedFile, console, last, probe, proc>>

\* ------------------------------------------------------------------------
\* Bounds of the model
\* ------------------------------------------------------------------------
MaxStack == 4
MaxErrFrames == 2
MaxLogged == 2

\* ------------------------------------------------------------------------
\* String helpers (String.prototype.includes / startsWith on token strings)
\* ------------------------------------------------------------------------
Includes(s, pat) ==
  \E i \in 1..(Len(s) - Len(pat) + 1) : SubSeq(s, i, i + Len(pat) - 1) = pat

StartsWith(s, pat) ==
  Len(s) >= Len(pat) /\ SubSeq(s, 1, Len(pat)) = pat

Max(S) == CHOOSE m \in S : \A n \in S : n <= m
Min(S) == CHOOSE m \in S : \A n \in S : m <= n

\* decimal numerals that occur in the model and their values (parseInt and
\* the number-to-string conversion of a template literal)
DigitValue == [t \in {"0", "7", "42"} |-> IF t = "0" THEN 0 ELSE IF t = "7" THEN 7 ELSE 42]
IsDigits(t) == t \in DOMAIN DigitValue
ParseInt(t) == DigitValue[t]
NumStr(n) == CHOOSE t \in DOMAIN DigitValue : DigitValue[t] = n

\* ------------------------------------------------------------------------
\* path (posix): isAbsolute, relative
\* ------------------------------------------------------------------------
cwd == <<"/", "project">>
LoggerFile == <<"/", "project", "/", "app", "/", "logger", ".js">>

IsAbsolute(p) == Len(p) > 0 /\ p[1] = "/"

\* the segments of a path: maximal runs of tokens between separators
RECURSIVE SplitPath(_, _, _)
SplitPath(p, i, cur) ==
  IF i > Len(p) THEN (IF cur = <<>> THEN <<>> ELSE <<cur>>)
  ELSE IF p[i] = "/"
       THEN (IF cur = <<>> THEN <<>> ELSE <<cur>>) \o SplitPath(p, i + 1, <<>>)
       ELSE SplitPath(p, i + 1, Append(cur, p[i]))

\* "." and ".." segments are resolved away
RECURSIVE NormalizeSegs(_, _, _)
NormalizeSegs(segs, i, acc) ==
  IF i > Len(segs) THEN acc
  ELSE IF segs[i] = <<".">> THEN NormalizeSegs(segs, i + 1, acc)
  ELSE IF segs[i] = <<"..">>
       THEN NormalizeSegs(segs, i + 1, IF acc = <<>> THEN acc ELSE SubSeq(acc, 1, Len(acc) - 1))
       ELSE NormalizeSegs(segs, i + 1, Append(acc, segs[i]))

ResolvePath(p) ==
  LET segs == IF IsAbsolute(p) THEN SplitPath(p, 1, <<>>)
              ELSE SplitPath(cwd, 1, <<>>) \o SplitPath(p, 1, <<>>)
  IN NormalizeSegs(segs, 1, <<>>)

RECURSIVE JoinSegs(_, _)
JoinSegs(segs, i) ==
  IF i > Len(segs) THEN <<>>
  ELSE IF i = Len(segs) THEN segs[i]
  ELSE segs[i] \o <<"/">> \o JoinSegs(segs, i + 1)

\* the length of the longest common prefix of two lists of segments
CommonLength(f, t) ==
  Max({n \in 0..Len(f) : n <= Len(t) /\ SubSeq(f, 1, n) = SubSeq(t, 1, n)})

\* one ".." for every segment of f after the common prefix, then the rest of t
RelativeSegs(f, t, c) ==
  JoinSegs([n \in 1..(Len(f) - c) |-> <<"..">>] \o SubSeq(t, c + 1, Len(t)), 1)

RelativeResolved(f, t) == RelativeSegs(f, t, CommonLength(f, t))

Relative(from, to) == RelativeResolved(ResolvePath(from), ResolvePath(to))

\* ------------------------------------------------------------------------
\* getCallerInfo
\* ------------------------------------------------------------------------
NoFile == <<"<null>">>
Unknown == <<"unknown">>
Patched == "returnStackArray"

\* faults of a resolution: none, the capture of the stack throws, or the
\* call site at (1-based) position i throws when it is inspected
NoFault == 0
CaptureFault == -1

ShouldSkipKeepsDependencies(filename, relativePath) ==
  \/ Includes(relativePath, <<"logger", ".js">>)
  \/ Includes(filename, <<"winston">>)
  \/ Includes(filename, <<"daily-rotate-file">>)
  \/ StartsWith(relativePath, <<"..">>)
  \/ filename = LoggerFile
  \/ relativePath = <<>>
  \/ relativePath = <<".">>

ShouldSkip(filename, relativePath) ==
  \/ Includes(relativePath, <<"node_modules">>)
  \/ Includes(relativePath, <<"logger", ".js">>)
  \/ Includes(filename, <<"winston">>)
  \/ Includes(filename, <<"daily-rotate-file">>)
  \/ StartsWith(relativePath, <<"..">>)
  \/ filename = LoggerFile
  \/ relativePath = <<>>
  \/ relativePath = <<".">>

\* the call site at position i is the caller: it has a file name and is not
\* skipped
IsCaller(site) ==
  /\ site.file # NoFile
  /\ \E relativePath \in {Relative(cwd, site.file)} :
       ~ShouldSkip(site.file, relativePath) /\ relativePath # <<>>

\* the loop over call sites, from position i on; the result is the state of
\* callerfile / callerline when the try block is left, and whether it was
\* left by an exception
RECURSIVE WalkStack(_, _, _)
WalkStack(stack, i, fault) ==
  IF i > Len(stack) THEN [callerfile |-> Unknown, callerline |-> 0, threw |-> FALSE]
  ELSE IF i = fault THEN [callerfile |-> Unknown, callerline |-> 0, threw |-> TRUE]
  ELSE IF IsCaller(stack[i])
       THEN [callerfile |-> stack[i].file, callerline |-> stack[i].line, threw |-> FALSE]
       ELSE WalkStack(stack, i + 1, fault)

RestoreHookOnSuccessOnly(originalFunc, current, threw) ==
  IF threw THEN current ELSE originalFunc

RestoreHook(originalFunc, current, threw) == originalFunc

\* the statements after the try block: the hook is restored and the file
\* of the caller is made relative to the project root
CallerResult(originalFunc, w) ==
  [file |-> IF w.callerfile # Unknown THEN Relative(cwd, w.callerfile) ELSE Unknown,
   line |-> w.callerline,
   hook |-> RestoreHook(originalFunc, Patched, w.threw)]

GetCallerInfo(hook, stack, skipFrames, fault) ==
  CallerResult(hook,
               IF fault = CaptureFault
               THEN [callerfile |-> Unknown, callerline |-> 0, threw |-> TRUE]
               ELSE WalkStack(stack, skipFrames + 1, fault))

\* ------------------------------------------------------------------------
\* Objects: maps from keys to values, every value a token string
\* ------------------------------------------------------------------------
EmptyObj == <<>>
Undefined == <<"<undefined>">>
Null == <<"<null>">>
EmptyString == <<>>

Spread(a, b) ==
  [k \in DOMAIN a \cup DOMAIN b |-> IF k \in DOMAIN b THEN b[k] ELSE a[k]]

Field(k, v) == [x \in {k} |-> v]
Get(o, k) == IF k \in DOMAIN o THEN o[k] ELSE Undefined
Without(o, keys) == [k \in DOMAIN o \ keys |-> o[k]]
Truthy(v) == v \notin {Undefined, Null, EmptyString}

\* `${caller.file}:${caller.line}`
CallerText(c) == c.file \o <<":", NumStr(c.line)>>

\* ------------------------------------------------------------------------
\* The winston logger of lines 160-196
\* ------------------------------------------------------------------------
\* npm levels of winston: a smaller number is more severe
LevelNum == [error |-> 0, warn |-> 1, info |-> 2, debug |-> 5]
Levels == DOMAIN LevelNum
Upper == [error |-> "ERROR", warn |-> "WARN", info |-> "INFO", debug |-> "DEBUG"]
ColorOf == [error |-> "red", warn |-> "yellow", info |-> "green", debug |-> "blue"]

\* level: process.env.LOG_LEVEL || 'info'
EnvLogLevels == {"unset", "error", "debug"}
LoggerLevel(env) == IF env = "unset" THEN "info" ELSE env

NoLevel == "none"
ErrorFileLevelWarn == "warn"
ErrorFileLevel == "error"
CombinedFileLevelError == "error"
CombinedFileLevel == NoLevel
ConsoleLevel == NoLevel

defaultMeta == Field("service", <<"bot">>)

\* a transport takes a record when the record's level is at least as severe
\* as the transport's level, or the logger's level when it has none
Accepts(transportLevel, loggerLevel, level) ==
  LevelNum[level] <= LevelNum[IF transportLevel = NoLevel THEN loggerLevel ELSE transportLevel]

\* addCallerInfo: a record without caller gets one from getCallerInfo(5)
WithCaller(info, c) ==
  [info |-> Spread(info, Field("caller", CallerText(c))), hook |-> c.hook, resolved |-> TRUE]

AddCallerInfoAlways(info, hook, stack, fault) ==
  WithCaller(info, GetCallerInfo(hook, stack, 5, fault))

AddCallerInfo(info, hook, stack, fault) ==
  IF ~Truthy(Get(info, "caller"))
  THEN WithCaller(info, GetCallerInfo(hook, stack, 5, fault))
  ELSE [info |-> info, hook |-> hook, resolved |-> FALSE]

Destructured == {"timestamp", "level", "message", "caller", "stack"}

\* a value that JSON.stringify cannot serialize (an object that refers to
\* itself, a BigInt): JSON.stringify throws a TypeError
Circular == <<"<circular>">>

\* JSON.stringify(cleanMeta) of the printf of logFormat throws
PrintfThrows(info) ==
  \E k \in DOMAIN info \ (Destructured \cup {"caller"}) : info[k] = Circular

\* printf of logFormat: the line of a file transport
FilePrintf(info) ==
  LET meta == Without(info, Destructured)
      cleanMeta == Without(meta, {"caller"})
  IN [level |-> <<Upper[info["level"][1]]>>,
      caller |-> Get(info, "caller"),
      message |-> info["message"],
      meta |-> cleanMeta,
      stack |-> IF Truthy(Get(info, "stack")) THEN info["stack"] ELSE EmptyString]

\* colorize and printf of consoleFormat: the line of the console transport
ConsolePrintf(info) ==
  LET caller == Get(info, "caller")
      shortCaller == IF Truthy(caller)
                     THEN (IF StartsWith(caller, <<"app", "/">>)
                           THEN SubSeq(caller, 3, Len(caller)) ELSE caller)
                     ELSE Unknown
      meta == Without(info, Destructured \ {"stack"})
      cleanMeta == Without(meta, {"caller"})
  IN [level |-> <<ColorOf[info["level"][1]], info["level"][1], "reset">>,
      caller |-> shortCaller,
      message |-> info["message"],
      meta |-> cleanMeta,
      stack |-> EmptyString]

\* the record as logger.log builds it: the default metadata, the metadata
\* of the call, the level and the message
BuildInfo(level, message, meta) ==
  Spread(Spread(defaultMeta, meta),
         Spread(Field("level", <<level>>),
                Field("message", IF Truthy(Get(meta, "message"))
                                 THEN message \o <<" ">> \o meta["message"]
                                 ELSE message)))

\* every transport that accepts the level of the record writes its line
Fanout(a, fileLine, consoleLine, loggerLevel, level) ==
  [info |-> a.info,
   hook |-> a.hook,
   resolved |-> a.resolved,
   threw |-> FALSE,
   errorFile |-> IF Accepts(ErrorFileLevel, loggerLevel, level) THEN <<fileLine>> ELSE <<>>,
   combinedFile |-> IF Accepts(CombinedFileLevel, loggerLevel, level)
                    THEN <<fileLine>> ELSE <<>>,
   console |-> IF Accepts(ConsoleLevel, loggerLevel, level) THEN <<consoleLine>> ELSE <<>>]

\* the format of the logger threw: no transport receives the record, and
\* the logger hands the exception to the caller of logger.log
Transports(a, loggerLevel, level) ==
  IF PrintfThrows(a.info)
  THEN [info |-> a.info, hook |-> a.hook, resolved |-> a.resolved, threw |-> TRUE,
        errorFile |-> <<>>, combinedFile |-> <<>>, console |-> <<>>]
  ELSE Fanout(a, FilePrintf(a.info), ConsolePrintf(a.info), loggerLevel, level)

\* logger.log(level, message, meta): the record is built, formatted by
\* logFormat and handed to every transport that accepts its level
LoggerLog(hook, loggerLevel, level, message, meta, stack, fault) ==
  Transports(AddCallerInfo(BuildInfo(level, message, meta), hook, stack, fault),
             loggerLevel, level)

\* ------------------------------------------------------------------------
\* getErrorLocation
\* ------------------------------------------------------------------------
Sentinel == [file |-> Unknown, line |-> 0]
NoStack == <<<<"<undefined>">>>>
NoMatch == [matched |-> FALSE, s |-> 0, e |-> 0]

Parens == {"(", ")"}
SepOrSpace == {"\\", "/", " "}

\* ends e of a capture "([class]+\.js):(\d+)" that starts at s: one or more
\* tokens outside `excluded`, the extension, a colon and a run of digits
CaptureEnds(line, s, excluded) ==
  {e \in (s + 1)..(Len(line) - 2) :
      /\ line[e] = ".js"
      /\ line[e + 1] = ":"
      /\ IsDigits(line[e + 2])
      /\ \A t \in s..(e - 1) : line[t] \notin excluded}

\* a match whose capture starts at s: the capture is greedy
MatchFrom(line, s) ==
  [matched |-> TRUE, s |-> s, e |-> Max(CaptureEnds(line, s, Parens))]

\* positions j of a " (" that can end the optional group "(?:at .+? \()?"
\* started at i, with a capture after it
GroupEnds(line, i) ==
  IF i + 1 <= Len(line) /\ line[i] = "at" /\ line[i + 1] = " "
  THEN {j \in (i + 3)..(Len(line) - 1) :
          /\ line[j] = " "
          /\ line[j + 1] = "("
          /\ CaptureEnds(line, j + 2, Parens) # {}}
  ELSE {}

\* /(?:at .+? \()?([^()]+\.js):(\d+)(?::\d+)?\)?/ tried at position i: the
\* optional group is tried first, its lazy ".+?" as short as possible, and
\* dropped when the rest cannot match; the capture is greedy.  The trailing
\* optional parts never decide the match nor the captures.
FramePatternWith(line, i, opens) ==
  IF opens # {} THEN MatchFrom(line, Min(opens) + 2)
  ELSE IF CaptureEnds(line, i, Parens) # {} THEN MatchFrom(line, i)
  ELSE NoMatch

FramePatternAt(line, i) == FramePatternWith(line, i, GroupEnds(line, i))

\* the leftmost position where the pattern matches decides
LeftmostFrame(line, starts) ==
  IF starts = {} THEN NoMatch ELSE FramePatternAt(line, Min(starts))

FramePattern(line) ==
  LeftmostFrame(line, {i \in 1..Len(line) : FramePatternAt(line, i).matched})

\* /([^\\\/\s]+\.js):(\d+)/
LeftmostBare(line, starts) ==
  IF starts = {} THEN NoMatch
  ELSE [matched |-> TRUE, s |-> Min(starts),
        e |-> Max(CaptureEnds(line, Min(starts), SepOrSpace))]

BarePattern(line) ==
  LeftmostBare(line, {i \in 1..Len(line) : CaptureEnds(line, i, SepOrSpace) # {}})

\* line.match(frame pattern) || line.match(bare pattern)
OrBare(line, m) == IF m.matched THEN m ELSE BarePattern(line)

MatchLine(line) == OrBare(line, FramePattern(line))

\* relativePath.replace(/\\/g, '/')
SlashNormalize(p) == [i \in 1..Len(p) |-> IF p[i] = "\\" THEN "/" ELSE p[i]]

MakeRelative(fullPath) ==
  IF IsAbsolute(fullPath) THEN Relative(cwd, fullPath) ELSE fullPath

LocationOfMatch(line, m) ==
  [file |-> SlashNormalize(MakeRelative(SubSeq(line, m.s, m.e))),
   line |-> ParseInt(line[m.e + 2])]

IgnoresDependency(fullPath) == FALSE

SkipsDependency(fullPath) == Includes(fullPath, <<"node_modules">>)

RECURSIVE ScanLines(_, _)

\* the body of the loop for the line at position i, m its match
ScanLine(stackLines, i, m) ==
  IF m.matched /\ ~SkipsDependency(SubSeq(stackLines[i], m.s, m.e))
  THEN LocationOfMatch(stackLines[i], m)
  ELSE ScanLines(stackLines, i + 1)

ScanLines(stackLines, i) ==
  IF i > Len(stackLines) THEN Sentinel
  ELSE ScanLine(stackLines, i, MatchLine(stackLines[i]))

\* error is a record [isError, message, name, stack], stack a sequence of lines
GetErrorLocation(hasError, stack) ==
  IF ~hasError \/ stack = NoStack THEN Sentinel ELSE ScanLines(stack, 1)

\* ------------------------------------------------------------------------
\* Stack traces as the runtime prints them
\* ------------------------------------------------------------------------
\* a source file named by a frame of an error's stack: the path as printed,
\* its project-root-relative form with forward slashes, and whether it
\* belongs to a dependency
AppX == <<"/", "project", "/", "app", "/", "handlers", "/", "x", ".js">>
AppXRel == <<"app", "/", "handlers", "/", "x", ".js">>
DepY == <<"/", "project", "/", "node_modules", "/", "lib", "/", "y", ".js">>
DepYRel == <<"node_modules", "/", "lib", "/", "y", ".js">>
BackslashX == <<"app", "\\", "handlers", "\\", "x", ".js">>
CallX == <<"load", "(", "x", ")", ".js">>

ErrSources ==
  {[path |-> AppX, rel |-> AppXRel, dependency |-> FALSE],
   [path |-> DepY, rel |-> DepYRel, dependency |-> TRUE],
   [path |-> BackslashX, rel |-> AppXRel, dependency |-> FALSE],
   [path |-> CallX, rel |-> CallX, dependency |-> FALSE]}
ErrFrames == [shape : {"paren", "trailing", "bare"}, src : ErrSources, line : {"7", "42"}]


FrameLine(f) ==
  IF f.shape = "paren"
  THEN <<" ", "at", " ", "foo", " ", "(">> \o f.src.path \o <<":", f.line, ":", "7", ")">>
  ELSE IF f.shape = "trailing"
  THEN <<" ", "at", " ">> \o f.src.path \o <<":", f.line, ":", "7">>
  ELSE f.src.path \o <<":", f.line>>

StackText(frames) ==
  <<<<"Error", ":", " ", "x">>>> \o [i \in 1..Len(frames) |-> FrameLine(frames[i])]

SeqsUpTo(S, n) == UNION {[1..k -> S] : k \in 0..n}

\* ------------------------------------------------------------------------
\* Call stacks as the runtime captures them
\* ------------------------------------------------------------------------
OutsideZ == <<"/", "usr", "/", "lib", "/", "z", ".js">>
WinstonApp == <<"/", "project", "/", "app", "/", "winston", "/", "setup", ".js">>

\* a call site: getFileName(), getLineNumber(); `kind` and `rel` say what the
\* file is and what its project-root-relative path is
CallSites ==
  {[file |-> LoggerFile, line |-> 7, kind |-> "logger", rel |-> <<"app", "/", "logger", ".js">>],
   [file |-> AppX, line |-> 42, kind |-> "app", rel |-> AppXRel],
   [file |-> WinstonApp, line |-> 7, kind |-> "app",
    rel |-> <<"app", "/", "winston", "/", "setup", ".js">>],
   [file |-> DepY, line |-> 7, kind |-> "dependency", rel |-> DepYRel],
   [file |-> OutsideZ, line |-> 42, kind |-> "outside",
    rel |-> <<"..", "/", "usr", "/", "lib", "/", "z", ".js">>],
   [file |-> cwd, line |-> 7, kind |-> "root", rel |-> <<>>],
   [file |-> NoFile, line |-> 0, kind |-> "native", rel |-> <<>>]}

SkipValues == {0, 2, 3}
WalkFault == 3
Faults == {NoFault, CaptureFault, WalkFault}
HookValues == {"undefined", "userHook"}

\* ------------------------------------------------------------------------
\* Arguments of the public operations and the environment of a call
\* ------------------------------------------------------------------------
Site(f) == CHOOSE c \in CallSites : c.file = f

\* the stack of a getCallerInfo(2) call: getCallerInfo, the public
\* operation, then the caller of the operation and its callers
AppStack == <<Site(LoggerFile), Site(LoggerFile), Site(AppX), Site(DepY)>>

\* the stack of the getCallerInfo(5) call of addCallerInfo: getCallerInfo,
\* addCallerInfo, the frames of the logging library, then the public
\* operation and its callers
FormatFrames == <<Site(LoggerFile), Site(LoggerFile), Site(DepY), Site(DepY), Site(DepY)>>
FormatStack(stack) == FormatFrames \o Tail(stack)

\* the environment of a call: its stack, whether the capture of the stack
\* fails and whether the underlying logger throws
Envs ==
  {[stack |-> AppStack, fault |-> NoFault, loggerThrows |-> FALSE],
   [stack |-> AppStack, fault |-> CaptureFault, loggerThrows |-> FALSE],
   [stack |-> AppStack, fault |-> NoFault, loggerThrows |-> TRUE]}

AbsentCtx == [kind |-> "object", from |-> EmptyObj, userState |-> EmptyObj, user |-> EmptyObj]
Ctxs ==
  {[AbsentCtx EXCEPT !.kind = "undefined"],
   [AbsentCtx EXCEPT !.kind = "null"],
   [AbsentCtx EXCEPT !.from = [id |-> <<"1001">>, username |-> <<"bob">>],
                     !.userState = [lang |-> <<"state">>, step |-> <<"state">>],
                     !.user = [lang |-> <<"user">>, caller |-> <<"forged">>]]}

Metas ==
  {EmptyObj,
   [lang |-> <<"explicit">>, step |-> <<"explicit">>, caller |-> <<"forged">>],
   [payload |-> Circular]}

\* a parameter default (ctx = {}) applies to undefined only
DefaultCtx(ctx) == IF ctx.kind = "undefined" THEN AbsentCtx ELSE ctx

NoCall ==
  [op |-> "none", outcome |-> "none", issued |-> FALSE, level |-> "none",
   ctx |-> AbsentCtx, meta |-> EmptyObj, err |-> "none", explicitCaller |-> Undefined,
   resolved |-> EmptyString, text |-> EmptyString, loggerFailed |-> FALSE,
   data |-> EmptyObj, info |-> EmptyObj, ran |-> {}, errorLocation |-> Sentinel,
   formatFailed |-> FALSE]

\* `ran` names the resolvers a call ran: getErrorLocation and getCallerInfo
\* in the operation itself, addCallerInfo for the getCallerInfo(5) of the
\* format
\* the end of a logging call: when nothing threw before, logger.log runs;
\* an exception of the logger reaches the caller unless the operation
\* catches it
NotLogged(hook) ==
  [info |-> EmptyObj, hook |-> hook, resolved |-> FALSE, threw |-> FALSE, errorFile |-> <<>>,
   combinedFile |-> <<>>, console |-> <<>>]

Complete(call, hookAfter, threwBefore, catches, message, data, env) ==
  LET issued == ~threwBefore /\ ~env.loggerThrows
  IN \E r \in {IF issued
               THEN LoggerLog(hookAfter, logLevel, call.level, message, data,
                              FormatStack(env.stack), env.fault)
               ELSE NotLogged(hookAfter)} :
       /\ prepareStackTrace' = r.hook
       /\ errorFile' = r.errorFile
       /\ combinedFile' = r.combinedFile
       /\ console' = r.console
       /\ last' = [call EXCEPT !.outcome = IF (issued /\ ~r.threw) \/ catches
                                            THEN "returned" ELSE "threw",
                               !.issued = issued /\ ~r.threw,
                               !.formatFailed = r.threw,
                               !.loggerFailed = env.loggerThrows,
                               !.data = IF threwBefore THEN EmptyObj ELSE data,
                               !.info = r.info,
                               !.ran = call.ran \cup (IF r.resolved THEN {"addCallerInfo"}
                                                      ELSE {})]
       /\ UNCHANGED <<logLevel, probe, proc>>

\* ------------------------------------------------------------------------
\* logAction
\* ------------------------------------------------------------------------
LogActionData(details, caller) == Spread(details, Field("caller", caller))

LogAction ==
  \E details \in Metas, level \in Levels, env \in Envs :
  \E c \in {GetCallerInfo(prepareStackTrace, env.stack, 2, env.fault)} :
    LET call == [NoCall EXCEPT !.op = "logAction", !.level = level, !.meta = details,
                               !.resolved = CallerText(c),
                               !.ran = {"getCallerInfo"}]
    IN Complete(call, c.hook, FALSE, TRUE, <<"action">>,
                LogActionData(details, CallerText(c)), env)

\* ------------------------------------------------------------------------
\* logUserAction
\* ------------------------------------------------------------------------
LogUserActionDataDetailsLast(ctx, details, caller) ==
  Spread(Spread(Spread(Spread(
    Spread(Field("userId", Get(ctx.from, "id")), Field("username", Get(ctx.from, "username"))),
    ctx.userState), ctx.user), details), Field("caller", caller))

LogUserActionData(ctx, details, caller) ==
  Spread(Spread(Spread(Spread(
    Spread(Field("userId", Get(ctx.from, "id")), Field("username", Get(ctx.from, "username"))),
    details), ctx.userState), ctx.user), Field("caller", caller))

LogUserAction ==
  \E ctx0 \in Ctxs, details \in Metas, env \in Envs :
  \E c \in {GetCallerInfo(prepareStackTrace, env.stack, 2, env.fault)} :
    LET ctx == DefaultCtx(ctx0)
        call == [NoCall EXCEPT !.op = "logUserAction", !.level = "info", !.ctx = ctx0,
                               !.meta = details, !.resolved = CallerText(c),
                               !.ran = {"getCallerInfo"}]
    IN Complete(call, c.hook, ctx.kind = "null", FALSE, <<"action">>,
                LogUserActionData(ctx, details, CallerText(c)), env)

\* ------------------------------------------------------------------------
\* logInfo, logWarn, logDebug
\* ------------------------------------------------------------------------
LogInfoDataCallerFirst(ctx, meta, caller) ==
  Spread(Spread(Spread(Field("caller", caller), ctx.userState), ctx.user), meta)

LogInfoData(ctx, meta, caller) ==
  Spread(Spread(Spread(ctx.userState, ctx.user), meta), Field("caller", caller))

LogWarnData(ctx, meta, caller) ==
  Spread(Spread(Spread(ctx.userState, ctx.user), meta), Field("caller", caller))

LogDebugData(ctx, meta, caller) ==
  Spread(Spread(Spread(ctx.userState, ctx.user), meta), Field("caller", caller))

LogInfo ==
  \E ctx0 \in Ctxs, meta \in Metas, env \in Envs :
  \E c \in {GetCallerInfo(prepareStackTrace, env.stack, 2, env.fault)} :
    LET ctx == DefaultCtx(ctx0)
        call == [NoCall EXCEPT !.op = "logInfo", !.level = "info", !.ctx = ctx0,
                               !.meta = meta, !.resolved = CallerText(c),
                               !.ran = {"getCallerInfo"}]
    IN Complete(call, c.hook, ctx.kind = "null", FALSE, <<"hello">>,
                LogInfoData(ctx, meta, CallerText(c)), env)

LogWarn ==
  \E ctx0 \in Ctxs, meta \in Metas, env \in Envs :
  \E c \in {GetCallerInfo(prepareStackTrace, env.stack, 2, env.fault)} :
    LET ctx == DefaultCtx(ctx0)
        call == [NoCall EXCEPT !.op = "logWarn", !.level = "warn", !.ctx = ctx0,
                               !.meta = meta, !.resolved = CallerText(c),
                               !.ran = {"getCallerInfo"}]
    IN Complete(call, c.hook, ctx.kind = "null", FALSE, <<"hello">>,
                LogWarnData(ctx, meta, CallerText(c)), env)

LogDebug ==
  \E ctx0 \in Ctxs, meta \in Metas, env \in Envs :
  \E c \in {GetCallerInfo(prepareStackTrace, env.stack, 2, env.fault)} :
    LET ctx == DefaultCtx(ctx0)
        call == [NoCall EXCEPT !.op = "logDebug", !.level = "debug", !.ctx = ctx0,
                               !.meta = meta, !.resolved = CallerText(c),
                               !.ran = {"getCallerInfo"}]
    IN Complete(call, c.hook, ctx.kind = "null", FALSE, <<"hello">>,
                LogDebugData(ctx, meta, CallerText(c)), env)

\* ------------------------------------------------------------------------
\* logError
\* ------------------------------------------------------------------------
\* error.stack: the lines of the trace joined by line breaks
RECURSIVE JoinLines(_, _)
JoinLines(lines, i) ==
  IF i > Len(lines) THEN <<>>
  ELSE IF i = Len(lines) THEN lines[i]
  ELSE lines[i] \o <<"\n">> \o JoinLines(lines, i + 1)

ParenFrame(src) == [shape |-> "paren", src |-> src, line |-> "42"]
SrcOf(path) == CHOOSE x \in ErrSources : x.path = path

ErrValues ==
  {[kind |-> "Error", frames |-> <<ParenFrame(SrcOf(AppX))>>],
   [kind |-> "Error", frames |-> <<ParenFrame(SrcOf(DepY))>>],
   [kind |-> "string", frames |-> <<>>],
   [kind |-> "null", frames |-> <<>>]}

\* the identifier `context` of line 350 is bound by no parameter, variable
\* or global: evaluating it throws a ReferenceError
ContextBound == FALSE

LogErrorObjectData(stack, context, ctx, caller) ==
  Spread(Spread(Spread(Spread(
    Spread(Field("stack", stack), Field("errorName", <<"Error">>)),
    context), Field("caller", caller)), ctx.userState), ctx.user)

LogErrorPlainData(ctx, meta, caller) ==
  Spread(Spread(Spread(ctx.userState, ctx.user), meta), Field("caller", caller))

LogError ==
  \E error \in ErrValues, ctx0 \in Ctxs, meta \in Metas, env \in Envs :
  \E c \in {GetCallerInfo(prepareStackTrace, env.stack, 2, env.fault)} :
    LET ctx == DefaultCtx(ctx0)
        call == [NoCall EXCEPT !.op = "logError", !.level = "error", !.ctx = ctx0,
                               !.meta = meta, !.err = error.kind]
    IN IF error.kind = "Error"
       THEN \E errorLocation \in {GetErrorLocation(TRUE, StackText(error.frames))} :
            LET located == errorLocation.file # Unknown
                caller == IF located THEN CallerText(errorLocation) ELSE CallerText(c)
            IN Complete([call EXCEPT !.resolved = caller, !.errorLocation = errorLocation,
                                     !.ran = IF located THEN {"getErrorLocation"}
                                             ELSE {"getErrorLocation", "getCallerInfo"}],
                        IF located THEN prepareStackTrace ELSE c.hook,
                        ~ContextBound \/ ctx.kind = "null", FALSE, <<"boom">>,
                        LogErrorObjectData(JoinLines(StackText(error.frames), 1),
                                           EmptyObj, ctx, caller), env)
       ELSE Complete([call EXCEPT !.resolved = CallerText(c), !.ran = {"getCallerInfo"}],
                     c.hook,
                     error.kind = "null" \/ ctx.kind = "null", FALSE, <<"boom">>,
                     LogErrorPlainData(ctx, meta, CallerText(c)), env)

\* ------------------------------------------------------------------------
\* logUserMessage
\* ------------------------------------------------------------------------
MaxMessageLength == 500

\* a text of n characters (UTF-16 code units, as String.length counts them),
\* one token per character
Text(n) == [i \in 1..n |-> IF i % 2 = 1 THEN "a" ELSE "b"]
UserTexts ==
  {Text(3), Text(MaxMessageLength - 1), Text(MaxMessageLength), Text(MaxMessageLength + 1)}

TruncateFromLimit(message) ==
  IF Len(message) >= MaxMessageLength
  THEN SubSeq(message, 1, MaxMessageLength) \o <<".", ".", ".">>
  ELSE message

Truncate(message) ==
  IF Len(message) > MaxMessageLength
  THEN SubSeq(message, 1, MaxMessageLength) \o <<".", ".", ".">>
  ELSE message

Whitespace == {" ", "\n"}

\* String.prototype.trim
RECURSIVE Trim(_)
Trim(str) ==
  IF str = <<>> THEN str
  ELSE IF str[1] \in Whitespace THEN Trim(Tail(str))
  ELSE IF str[Len(str)] \in Whitespace THEN Trim(SubSeq(str, 1, Len(str) - 1))
  ELSE str

Users ==
  {[kind |-> "null", obj |-> EmptyObj],
   [kind |-> "object", obj |-> [id |-> <<"1001">>, username |-> <<"bob">>,
                                first_name |-> <<"Bob">>]]}

\* a user state: its phase and the text of its auxiliary data, empty when
\* the data has no keys
UserStates ==
  {[kind |-> "null", current |-> Undefined, data |-> EmptyString],
   [kind |-> "object", current |-> <<"menu">>, data |-> EmptyString],
   [kind |-> "object", current |-> <<"form">>, data |-> <<"{", "step", ":", "1", "}">>]}

FullName(user) ==
  LET firstName == IF Truthy(Get(user, "first_name")) THEN user["first_name"] ELSE EmptyString
      lastName == IF Truthy(Get(user, "last_name")) THEN user["last_name"] ELSE EmptyString
      fullName == Trim(firstName \o <<" ">> \o lastName)
  IN IF Truthy(fullName) THEN fullName ELSE Null

LogUserMessageData(user, message, userState, caller) ==
  LET logData == [userId |-> Get(user, "id"),
                  username |-> Get(user, "username"),
                  fullName |-> FullName(user),
                  message |-> Truncate(message),
                  caller |-> caller]
      withState == IF userState.kind = "object"
                   THEN Spread(logData, Field("userState", userState.current))
                   ELSE logData
  IN IF userState.kind = "object" /\ userState.data # EmptyString
     THEN Spread(withState, Field("stateData", userState.data))
     ELSE withState

LogUserMessage ==
  \E user \in Users, message \in UserTexts \cup {Null}, userState \in UserStates, env \in Envs :
  \E c \in {GetCallerInfo(prepareStackTrace, env.stack, 2, env.fault)} :
    LET call == [NoCall EXCEPT !.op = "logUserMessage", !.level = "info",
                               !.text = message, !.resolved = CallerText(c),
                               !.ran = {"getCallerInfo"}]
    IN Complete(call, c.hook, user.kind = "null" \/ message = Null, FALSE,
                <<"user_message">>,
                LogUserMessageData(user.obj, message, userState, CallerText(c)), env)

\* ------------------------------------------------------------------------
\* logWithCaller and the stream adapter
\* ------------------------------------------------------------------------
CustomLabel == <<"jobs", "/", "cron">>
MorganLabel == <<"http", "/", "morgan">>
ExplicitCallers == {CustomLabel, EmptyString, Undefined}

LogWithCallerData(meta, customCaller) == Spread(meta, Field("caller", customCaller))

LogWithCaller ==
  \E level \in Levels, customCaller \in ExplicitCallers, meta \in Metas, env \in Envs :
  \E data \in {LogWithCallerData(meta, customCaller)} :
    LET call == [NoCall EXCEPT !.op = "logWithCaller", !.level = level, !.meta = meta,
                               !.explicitCaller = customCaller]
    IN Complete(call, prepareStackTrace, FALSE, FALSE, <<"hello">>, data, env)

StreamWrite ==
  \E message \in {<<"GET", " ", "/", "\n">>, Null}, env \in Envs :
  \E trimmed \in {Trim(message)} :
    LET call == [NoCall EXCEPT !.op = "stream.write", !.level = "info",
                               !.text = message, !.explicitCaller = MorganLabel]
    IN Complete(call, prepareStackTrace, message = Null, FALSE, trimmed,
                Field("caller", MorganLabel), env)

\* ------------------------------------------------------------------------
\* Timestamps of logFormat and consoleFormat
\* ------------------------------------------------------------------------
\* Time values are milliseconds since the epoch, as Date.getTime() gives
\* them.  The instants of the model lie in the first days of January 1970,
\* where the time values fit the integers of the checker; the arithmetic of
\* the formats does not depend on the magnitude of the time value.
Pad2(n) ==
  <<"00", "01", "02", "03", "04", "05", "06", "07", "08", "09", "10",
    "11", "12", "13", "14", "15", "16", "17", "18", "19", "20", "21",
    "22", "23", "24", "25", "26", "27", "28", "29", "30", "31", "32",
    "33", "34", "35", "36", "37", "38", "39", "40", "41", "42", "43",
    "44", "45", "46", "47", "48", "49", "50", "51", "52", "53", "54",
    "55", "56", "57", "58", "59">>[n + 1]
Pad3(n) ==
  LET digit == <<"0", "1", "2", "3", "4", "5", "6", "7", "8", "9">>
  IN <<digit[(n \div 100) + 1], digit[((n \div 10) % 10) + 1], digit[(n % 10) + 1]>>

\* the calendar fields of a time value on the UTC time line
UtcFields(t) ==
  [year |-> "1970",
   month |-> Pad2(1),
   day |-> Pad2((t \div 86400000) + 1),
   hour |-> Pad2((t % 86400000) \div 3600000),
   minute |-> Pad2((t % 3600000) \div 60000),
   second |-> Pad2((t % 60000) \div 1000),
   ms |-> Pad3(t % 1000)]

\* a host time zone: Date.getTimezoneOffset() is UTC minus local time, in
\* minutes, and changes at `change` in a zone with daylight saving time
Zone(offset) == [before |-> offset, after |-> offset, change |-> 0]
GetTimezoneOffset(zone, t) == IF t < zone.change THEN zone.before ELSE zone.after

\* Date.prototype.toISOString: always on the UTC time line
ToISOString(t) ==
  LET f == UtcFields(t)
  IN <<f.year, "-", f.month, "-", f.day, "T", f.hour, ":", f.minute, ":", f.second, ".">>
     \o f.ms \o <<"Z">>

\* Date.prototype.toLocaleString('en-GB', two-digit fields, hour12: false):
\* on the time line of the host
ToLocaleString(t, zone) ==
  LET f == UtcFields(t - GetTimezoneOffset(zone, t) * 60000)
  IN <<f.day, "/", f.month, "/", f.year, ",", " ", f.hour, ":", f.minute, ":", f.second>>

\* .replace('T', ' '): the first occurrence only
ReplaceT(str) ==
  LET at == {i \in 1..Len(str) : str[i] = "T"}
  IN IF at = {} THEN str ELSE [str EXCEPT ![Min(at)] = " "]

\* .replace(/\..+/, ''): from the first dot that has something after it
DropFraction(str) ==
  LET at == {i \in 1..(Len(str) - 1) : str[i] = "."}
  IN IF at = {} THEN str ELSE SubSeq(str, 1, Min(at) - 1)

\* .replace(/(\d+)\/(\d+)\/(\d+),/, '$3-$2-$1'): the first day/month/year
\* group followed by a comma
DateFirst(str) ==
  LET IsNumber(tok) == tok = "1970" \/ \E n \in 0..59 : tok = Pad2(n)
      at == {i \in 1..(Len(str) - 5) :
               /\ IsNumber(str[i]) /\ str[i + 1] = "/"
               /\ IsNumber(str[i + 2]) /\ str[i + 3] = "/"
               /\ IsNumber(str[i + 4]) /\ str[i + 5] = ","}
  IN IF at = {} THEN str
     ELSE LET i == Min(at)
          IN SubSeq(str, 1, i - 1) \o <<str[i + 4], "-", str[i + 2], "-", str[i]>>
             \o SubSeq(str, i + 6, Len(str))

\* `tashkentTime` of both formats: the time value `now`, moved by the offset
\* of the host and by five hours
TashkentTime(now, zone) ==
  LET utc == now + (GetTimezoneOffset(zone, now) * 60000)
  IN utc + (5 * 3600000)

\* the timestamp of logFormat
FileTimestamp(now, zone) == DropFraction(ReplaceT(ToISOString(TashkentTime(now, zone))))

\* the timestamp of consoleFormat
ConsoleTimestamp(now, zone) == DateFirst(ToLocaleString(TashkentTime(now, zone), zone))

\* the third day after the epoch: the first and the last millisecond of the
\* hours 0, 18, 19 and 23
Instants ==
  {(48 * 3600000) + (h * 3600000) + x :
     h \in {0, 18, 19, 23}, x \in {0, (59 * 60000) + (59 * 1000) + 999}}

\* hosts at UTC, UTC+5, UTC-5, UTC+5:30 and UTC+14, and a host that moves
\* from UTC+1 to UTC+2 during the third day
Zones ==
  {Zone(0), Zone(-300), Zone(300), Zone(-330), Zone(-840),
   [before |-> -60, after |-> -120, change |-> (48 + 20) * 3600000]}


\* ------------------------------------------------------------------------
\* State
\* ------------------------------------------------------------------------

NoProbe ==
  [fn |-> "none", stack |-> <<>>, frames |-> <<>>, error |-> "none",
   skip |-> 0, fault |-> NoFault, done |-> FALSE, out |-> Sentinel,
   now |-> 0, zone |-> Zone(0), delay |-> 0, fileStamp |-> <<>>, consoleStamp |-> <<>>]

\* the process of the bot: where it is in its life, the records handed to
\* the write stream of each file transport and not yet in the file, the
\* records in the file, and whether the transports were closed
NoProcess ==
  [variant |-> "none", pc |-> "none", exitCode |-> -1, logged |-> 0, closed |-> FALSE,
   pending |-> [error |-> <<>>, combined |-> <<>>],
   written |-> [error |-> <<>>, combined |-> <<>>]]

InitQuiet ==
  /\ prepareStackTrace \in HookValues
  /\ logLevel = LoggerLevel("unset")
  /\ errorFile = <<>>
  /\ combinedFile = <<>>
  /\ console = <<>>
  /\ last = NoCall

\* ------------------------------------------------------------------------
\* getCallerInfo applied to every call stack
\* ------------------------------------------------------------------------
InitResolver ==
  /\ InitQuiet
  /\ proc = NoProcess
  /\ probe \in {[NoProbe EXCEPT !.fn = "getCallerInfo", !.stack = s] :
                  s \in SeqsUpTo(CallSites, MaxStack)}

Resolve ==
  /\ probe.fn = "getCallerInfo"
  /\ ~probe.done
  /\ \E k \in SkipValues, fault \in Faults :
       LET r == GetCallerInfo(prepareStackTrace, probe.stack, k, fault)
       IN /\ probe' = [probe EXCEPT !.skip = k, !.fault = fault, !.done = TRUE,
                                    !.out = [file |-> r.file, line |-> r.line]]
          /\ prepareStackTrace' = r.hook
  /\ UNCHANGED <<logLevel, errorFile, combinedFile, console, last, proc>>

SpecResolver == InitResolver /\ [][Resolve]_vars

\* ------------------------------------------------------------------------
\* getErrorLocation applied to every error
\* ------------------------------------------------------------------------
InitExtractor ==
  /\ InitQuiet
  /\ proc = NoProcess
  /\ probe \in {[NoProbe EXCEPT !.fn = "getErrorLocation", !.frames = fs, !.error = e] :
                  fs \in SeqsUpTo(ErrFrames, MaxErrFrames),
                  e \in {"Error", "nostack", "null"}}

Extract ==
  /\ probe.fn = "getErrorLocation"
  /\ ~probe.done
  /\ probe' = [probe EXCEPT !.done = TRUE,
                 !.out = GetErrorLocation(probe.error # "null",
                            IF probe.error = "Error" THEN StackText(probe.frames) ELSE NoStack)]
  /\ UNCHANGED <<prepareStackTrace, logLevel, errorFile, combinedFile, console, last, proc>>

SpecExtractor == InitExtractor /\ [][Extract]_vars

\* ------------------------------------------------------------------------
\* The timestamps of a record at every instant on every host
\* ------------------------------------------------------------------------
InitClock ==
  /\ InitQuiet
  /\ proc = NoProcess
  /\ probe \in {[NoProbe EXCEPT !.fn = "timestamp", !.now = t, !.zone = z] :
                  t \in Instants, z \in Zones}

Stamp ==
  /\ probe.fn = "timestamp"
  /\ ~probe.done
  \* the console transport formats the record after the logger did: its
  \* `new Date()` is the same instant or a later one
  /\ \E delay \in {0, 1} :
       probe' = [probe EXCEPT !.done = TRUE, !.delay = delay,
                   !.fileStamp = FileTimestamp(probe.now, probe.zone),
                   !.consoleStamp = ConsoleTimestamp(probe.now + delay, probe.zone)]
  /\ UNCHANGED <<prepareStackTrace, logLevel, errorFile, combinedFile, console, last, proc>>

SpecClock == InitClock /\ [][Stamp]_vars

\* ------------------------------------------------------------------------
\* The life of the process: start, launch, updates, shutdown on a signal.
\* `variant` names the entry module: app/index.js, or the earlier entry
\* module with gracefulShutdown.
\* A file transport hands each record to a write stream; the stream writes
\* one record at a time and the write completes later, while the process is
\* alive.  process.exit() ends the process at once: of the records still
\* pending, the one in flight on each stream may or may not reach the file.
\* ------------------------------------------------------------------------
FileSinks == {"error", "combined"}

\* a logging call that returned: each file transport that accepts the level
\* queues the record
Queued(pending, level, text) ==
  LET FileLevel == [error |-> ErrorFileLevel, combined |-> CombinedFileLevel]
  IN [sink \in FileSinks |->
        IF Accepts(FileLevel[sink], logLevel, level)
        THEN Append(pending[sink], text) ELSE pending[sink]]

\* the oldest pending write of a stream completes
Completed(p, sink) ==
  IF sink \notin FileSinks \/ p.pending[sink] = <<>> THEN p
  ELSE [p EXCEPT !.pending[sink] = Tail(p.pending[sink]),
                 !.written[sink] = Append(p.written[sink], Head(p.pending[sink]))]

\* process.exit(code) right after the logging call; the writes in flight
\* on the streams of `landed` complete all the same
Exit(p, code, landed) ==
  [Completed(Completed(p, IF "error" \in landed THEN "error" ELSE "none"),
             IF "combined" \in landed THEN "combined" ELSE "none")
     EXCEPT !.pc = "exited", !.exitCode = code]

\* logError(...) followed by process.exit(1): app/index.js passes a text as
\* the error, the earlier entry module passes the Error value; logError
\* called with an Error value throws (ContextBound) and process.exit(1) is
\* not reached
LogErrorAndExit(p, text, landed) ==
  IF p.variant = "index.js" \/ ContextBound
  THEN Exit([p EXCEPT !.pending = Queued(p.pending, "error", text)], 1, landed)
  ELSE [p EXCEPT !.pc = "unhandled"]

InitShutdown ==
  /\ InitQuiet
  /\ probe = NoProbe
  /\ proc \in {[NoProcess EXCEPT !.variant = v, !.pc = "loading"] :
                 v \in {"index.js", "gracefulShutdown"}}

\* missingEnvVars.length > 0: logError(new Error(...)); process.exit(1)
MissingEnvVars ==
  /\ proc.pc = "loading"
  /\ \E landed \in SUBSET FileSinks :
       proc' = IF ContextBound
               THEN Exit([proc EXCEPT !.pending = Queued(proc.pending, "error", "missingEnv")],
                         1, landed)
               ELSE [proc EXCEPT !.pc = "unhandled"]
  /\ UNCHANGED <<prepareStackTrace, logLevel, errorFile, combinedFile, console, last, probe>>

\* bot.launch() resolves: logInfo('Bot started successfully')
Launch ==
  /\ proc.pc = "loading"
  /\ proc' = [proc EXCEPT !.pc = "running",
                          !.pending = Queued(proc.pending, "info", "started")]
  /\ UNCHANGED <<prepareStackTrace, logLevel, errorFile, combinedFile, console, last, probe>>

\* bot.launch() rejects: logError(...); process.exit(1)
LaunchFailed ==
  /\ proc.pc = "loading"
  /\ \E landed \in SUBSET FileSinks : proc' = LogErrorAndExit(proc, "launchFailed", landed)
  /\ UNCHANGED <<prepareStackTrace, logLevel, errorFile, combinedFile, console, last, probe>>

\* the logging middleware logs an update
LogUpdate ==
  /\ proc.pc = "running"
  /\ proc.logged < MaxLogged
  /\ proc' = [proc EXCEPT !.logged = proc.logged + 1,
                          !.pending = Queued(proc.pending, "info", "update")]
  /\ UNCHANGED <<prepareStackTrace, logLevel, errorFile, combinedFile, console, last, probe>>

\* SIGINT or SIGTERM: logInfo('Received ...'), then the bot is stopped
Signal ==
  /\ proc.pc = "running"
  /\ proc' = [proc EXCEPT !.pc = "stopping",
                          !.pending = Queued(proc.pending, "info", "received")]
  /\ UNCHANGED <<prepareStackTrace, logLevel, errorFile, combinedFile, console, last, probe>>

\* the stop resolves: logInfo('Graceful shutdown completed'); process.exit(0)
StopResolved ==
  /\ proc.pc = "stopping"
  /\ \E landed \in SUBSET FileSinks :
       proc' = Exit([proc EXCEPT !.pending = Queued(proc.pending, "info", "completed")],
                    0, landed)
  /\ UNCHANGED <<prepareStackTrace, logLevel, errorFile, combinedFile, console, last, probe>>

\* the stop rejects: logError(...); process.exit(1)
StopRejected ==
  /\ proc.pc = "stopping"
  /\ \E landed \in SUBSET FileSinks : proc' = LogErrorAndExit(proc, "shutdownError", landed)
  /\ UNCHANGED <<prepareStackTrace, logLevel, errorFile, combinedFile, console, last, probe>>

\* the write stream of a file transport completes its oldest write
WriteCompletes ==
  /\ proc.pc \notin {"exited", "none"}
  /\ \E sink \in FileSinks :
       /\ proc.pending[sink] # <<>>
       /\ proc' = Completed(proc, sink)
  /\ UNCHANGED <<prepareStackTrace, logLevel, errorFile, combinedFile, console, last, probe>>

NextShutdown ==
  \/ MissingEnvVars
  \/ Launch
  \/ LaunchFailed
  \/ LogUpdate
  \/ Signal
  \/ StopResolved
  \/ StopRejected
  \/ WriteCompletes

SpecShutdown == InitShutdown /\ [][NextShutdown]_vars

\* ------------------------------------------------------------------------
\* The logging subsystem: any sequence of calls of the public operations.
\* errorFile, combinedFile and console hold the lines that the most recent
\* call wrote to the transport.
\* ------------------------------------------------------------------------
Init ==
  /\ prepareStackTrace = "undefined"
  /\ logLevel \in {LoggerLevel(e) : e \in EnvLogLevels}
  /\ errorFile = <<>>
  /\ combinedFile = <<>>
  /\ console = <<>>
  /\ last = NoCall
  /\ probe = NoProbe
  /\ proc = NoProcess

Next ==
  \/ LogAction
  \/ LogUserMessage
  \/ LogUserAction
  \/ LogError
  \/ LogInfo
  \/ LogWarn
  \/ LogDebug
  \/ LogWithCaller
  \/ StreamWrite

Spec == Init /\ [][Next]_vars

\* ------------------------------------------------------------------------
\* Properties
\* ------------------------------------------------------------------------
AllLines == errorFile \o combinedFile \o console

\* C1: no public logging operation raises an exception to its caller,
\* whatever its arguments and whatever fails internally.
C1_NoOperationRaises == last.outcome # "threw"

\* C3: every record delivered to the error-file sink has level error; no
\* warn, info or debug record is ever delivered to it.
C3_ErrorFileOnlyErrors ==
  \A i \in 1..Len(errorFile) :
    /\ errorFile[i].level = <<"ERROR">>
    /\ last.level = "error"

C3_Witness ==
  /\ last.op = "logAction"
  /\ last.level = "error"
  /\ Len(errorFile) = 1
  /\ Len(combinedFile) = 1

\* C4 as stated: every record issued at any of the four levels, every
\* logDebug call included, is delivered to the combined-file sink and to the
\* console sink.
C4_EveryLevelDelivered ==
  (last.issued /\ last.level \in Levels) => (Len(combinedFile) = 1 /\ Len(console) = 1)

\* C4 amended: a record issued at a level at least as severe as the level
\* of the logger (LOG_LEVEL, info when unset) is delivered to the
\* combined-file sink and to the console sink; a record of a less severe
\* level is delivered to no sink.
C4_EnabledLevelsDelivered ==
  (last.issued /\ last.level \in Levels) =>
     IF LevelNum[last.level] <= LevelNum[logLevel]
     THEN /\ Len(combinedFile) = 1
          /\ Len(console) = 1
          /\ combinedFile[1].level = <<Upper[last.level]>>
          /\ console[1].level[2] = last.level
     ELSE AllLines = <<>>

C4_Witness ==
  /\ last.op = "logDebug"
  /\ last.issued
  /\ logLevel = "debug"
  /\ Len(combinedFile) = 1
  /\ Len(console) = 1

\* C5: for logUserAction, logError (both paths), logInfo, logWarn and
\* logDebug, a key present both in the ambient context and in the explicit
\* details/meta has the explicit value in the final record.
MergeOps == {"logUserAction", "logError", "logInfo", "logWarn", "logDebug"}

C5_ExplicitWins ==
  \A k \in DOMAIN last.meta \ {"caller"} :
    ( /\ last.op \in MergeOps
      /\ last.ctx.kind = "object"
      /\ ~last.loggerFailed
      /\ k \in DOMAIN last.ctx.userState \cup DOMAIN last.ctx.user )
    => /\ last.issued
       /\ Get(last.info, k) = last.meta[k]

\* C6 as stated: every record that reaches a sink has a caller that is the
\* location computed for the call or unknown:0; a caller key of the context
\* or of the metadata never replaces it, and the metadata of the formatted
\* record has no caller entry.
AppCaller == Site(AppX).rel \o <<":", "42">>
UnknownCaller == <<"unknown", ":", "0">>
ShortAppCaller == <<"handlers", "/", "x", ".js", ":", "42">>

ComputedCallers ==
  /\ \A i \in 1..Len(errorFile) : errorFile[i].caller \in {AppCaller, UnknownCaller}
  /\ \A i \in 1..Len(combinedFile) : combinedFile[i].caller \in {AppCaller, UnknownCaller}
  /\ \A i \in 1..Len(console) : console[i].caller \in {ShortAppCaller, UnknownCaller}

CallerOnce == \A i \in 1..Len(AllLines) : "caller" \notin DOMAIN AllLines[i].meta

C6_CallerComputedOrUnknown == ComputedCallers /\ CallerOnce

\* C6 amended: every record that reaches a sink has a populated caller: the
\* explicit label for a logWithCaller call with a non-empty label and for
\* the stream adapter, otherwise the location computed for the call or
\* unknown:0; a caller key of the context or of the metadata never replaces
\* it, and the metadata of the formatted record has no caller entry.
ExplicitlyLabelled ==
  \/ last.op = "stream.write"
  \/ last.op = "logWithCaller" /\ Truthy(last.explicitCaller)

C6_CallerPopulated ==
  /\ CallerOnce
  /\ IF ExplicitlyLabelled
     THEN \A i \in 1..Len(AllLines) : AllLines[i].caller = last.explicitCaller
     ELSE ComputedCallers

C6_Witness ==
  /\ last.op = "logInfo"
  /\ "caller" \in DOMAIN last.meta
  /\ "caller" \in DOMAIN last.ctx.user
  /\ Len(combinedFile) = 1
  /\ combinedFile[1].caller = AppCaller
  /\ console[1].caller = ShortAppCaller

\* C7 as stated: getCallerInfo with skipFrames = k returns the location of
\* the first frame at index >= k that has a file, is application code (not a
\* dependency, not the logging module, not outside the root, not the root
\* itself), and the sentinel exactly when there is none or the capture fails.
Inspected(i) == i \in (probe.skip + 1)..Len(probe.stack)

CaptureFailed(Q(_)) ==
  \/ probe.fault = CaptureFault
  \/ /\ probe.fault # NoFault
     /\ Inspected(probe.fault)
     /\ \A i \in 1..(probe.fault - 1) : ~(Inspected(i) /\ Q(probe.stack[i]))

FirstQualifying(Q(_)) ==
  LET q == {i \in 1..Len(probe.stack) : Inspected(i) /\ Q(probe.stack[i])}
  IN IF CaptureFailed(Q) \/ q = {} THEN probe.out = Sentinel
     ELSE /\ probe.out = [file |-> probe.stack[Min(q)].rel, line |-> probe.stack[Min(q)].line]
          /\ probe.out # Sentinel

IsApplicationCode(site) == site.kind = "app"

C7_FirstApplicationFrame == probe.done => FirstQualifying(IsApplicationCode)

\* C7 amended: as stated, with one more condition on the frame: its path
\* contains none of the texts "winston", "daily-rotate-file" and "logger.js".
IsReportable(site) ==
  /\ site.kind = "app"
  /\ ~Includes(site.file, <<"winston">>)
  /\ ~Includes(site.file, <<"daily-rotate-file">>)
  /\ ~Includes(site.file, <<"logger", ".js">>)

C7_FirstReportableFrame == probe.done => FirstQualifying(IsReportable)

C7_Witness ==
  /\ probe.done
  /\ probe.stack = AppStack
  /\ probe.skip = 2
  /\ probe.fault = NoFault
  /\ probe.out = [file |-> AppXRel, line |-> 42]

\* C8: getCallerInfo leaves Error.prepareStackTrace as it found it, on every
\* return path, the one where the capture or the walk throws included.
C8_HookRestored == [][prepareStackTrace' = prepareStackTrace]_vars

C8_Witness ==
  /\ probe.done
  /\ probe.fault = WalkFault
  /\ probe.skip = 2
  /\ Len(probe.stack) >= WalkFault
  /\ probe.out = Sentinel
  /\ prepareStackTrace = "userHook"

\* C9: the result of getErrorLocation is that of the first line, in order,
\* that matches one of the two patterns with a path outside node_modules;
\* without such a line, in particular when every frame is in a dependency or
\* the stack is absent, it is the sentinel.
NonDependencyFrames == {i \in 1..Len(probe.frames) : ~probe.frames[i].src.dependency}

C9_FirstQualifyingLine ==
  probe.done =>
    LET lines == StackText(probe.frames)
        q == {i \in 1..Len(lines) :
                /\ MatchLine(lines[i]).matched
                /\ ~Includes(SubSeq(lines[i], MatchLine(lines[i]).s, MatchLine(lines[i]).e),
                             <<"node_modules">>)}
    IN /\ (probe.error # "Error" \/ q = {}) => probe.out = Sentinel
       /\ (probe.error = "Error" /\ q # {}) =>
             probe.out = LocationOfMatch(lines[Min(q)], MatchLine(lines[Min(q)]))
       /\ (probe.error # "Error" \/ NonDependencyFrames = {}) => probe.out = Sentinel
       /\ (probe.error = "Error" /\ NonDependencyFrames # {}) =>
             /\ probe.out # Sentinel
             /\ probe.out.line = ParseInt(probe.frames[Min(NonDependencyFrames)].line)

C9_Witness ==
  /\ probe.done
  /\ probe.error = "Error"
  /\ Len(probe.frames) = 2
  /\ probe.frames[1].src.dependency
  /\ ~probe.frames[2].src.dependency
  /\ probe.frames[1].line # probe.frames[2].line
  /\ probe.out.line = ParseInt(probe.frames[2].line)

\* C10: a result of getErrorLocation other than the sentinel names the
\* project-root-relative path of the frame, with forward slashes, and the
\* line of the frame, for a parenthesized and for a trailing location.
C10_RelativeFile ==
  (probe.done /\ probe.out # Sentinel) =>
     /\ NonDependencyFrames # {}
     /\ probe.out.file = probe.frames[Min(NonDependencyFrames)].src.rel
     /\ probe.out.line = ParseInt(probe.frames[Min(NonDependencyFrames)].line)

\* C11: logError with an Error value runs getErrorLocation on its stack and
\* getCallerInfo only when that yields the sentinel, and emits a record at
\* level error that carries the raw stack text, the name of the error and
\* the explicit meta; with a plain value it runs getCallerInfo only.
C11_DualPath ==
  (last.op = "logError" /\ last.ctx.kind # "null" /\ ~last.loggerFailed) =>
     /\ last.err = "Error" =>
          /\ "getErrorLocation" \in last.ran
          /\ "getCallerInfo" \in last.ran <=> last.errorLocation = Sentinel
          /\ last.issued
          /\ last.level = "error"
          /\ Len(errorFile) = 1
          /\ Truthy(Get(last.info, "stack"))
          /\ errorFile[1].stack = last.info["stack"]
          /\ Get(last.info, "errorName") = <<"Error">>
          /\ DOMAIN last.meta \ {"caller"} \subseteq DOMAIN last.info
     /\ last.err = "string" =>
          /\ last.ran = {"getCallerInfo"}
          /\ last.issued
          /\ Len(errorFile) = 1
          /\ errorFile[1].caller = last.resolved

\* C12 as stated: for every explicit caller given to logWithCaller, an empty
\* or missing one included, the caller of the record is that value verbatim
\* and no resolver runs for the record; every line written to the stream
\* adapter is logged at level info with the caller http/morgan.
LabelledOps == {"logWithCaller", "stream.write"}

C12_NeverResolves ==
  (last.op \in LabelledOps /\ last.issued) =>
     /\ last.ran = {}
     /\ Get(last.info, "caller") = last.explicitCaller
     /\ last.op = "stream.write" =>
          (last.level = "info" /\ last.explicitCaller = MorganLabel)

\* C12 amended: for every non-empty explicit caller given to logWithCaller
\* the caller of the record is that value verbatim and no resolver runs; for
\* an empty or missing one addCallerInfo runs getCallerInfo and the caller
\* is the computed location or unknown:0; every line written to the stream
\* adapter is logged at level info with the caller http/morgan, unresolved.
C12_ResolvesOnlyWithoutLabel ==
  (last.op \in LabelledOps /\ last.issued) =>
     /\ last.op = "stream.write" =>
          (last.level = "info" /\ last.explicitCaller = MorganLabel)
     /\ IF Truthy(last.explicitCaller)
        THEN /\ last.ran = {}
             /\ Get(last.info, "caller") = last.explicitCaller
             /\ \A i \in 1..Len(errorFile \o combinedFile) :
                   (errorFile \o combinedFile)[i].caller = last.explicitCaller
        ELSE /\ last.ran = {"addCallerInfo"}
             /\ Get(last.info, "caller") \in {AppCaller, UnknownCaller}

C12_Witness ==
  /\ last.op = "logWithCaller"
  /\ last.issued
  /\ last.explicitCaller = CustomLabel
  /\ "caller" \in DOMAIN last.meta
  /\ Len(combinedFile) = 1
  /\ combinedFile[1].caller = CustomLabel

\* C13: logUserMessage records the text unchanged when it has at most 500
\* characters, and its first 500 characters followed by "..." when it has
\* more (501 characters give 503).
C13_TruncatedAbove500 ==
  (last.op = "logUserMessage" /\ last.issued) =>
     LET recorded == last.data["message"]
     IN /\ Len(last.text) <= 500 => recorded = last.text
        /\ Len(last.text) > 500 =>
             /\ Len(recorded) = 503
             /\ \A i \in 1..500 : recorded[i] = last.text[i]
             /\ \A i \in 501..503 : recorded[i] = "."
        /\ last.info["message"] = <<"user_message", " ">> \o recorded
        /\ \A i \in 1..Len(AllLines) : AllLines[i].message = last.info["message"]

C13_Witness ==
  /\ last.op = "logUserMessage"
  /\ last.issued
  /\ Len(last.text) = 501
  /\ Len(last.data["message"]) = 503
  /\ Len(combinedFile) = 1
  /\ Len(combinedFile[1].message) = 505

\* C14: at every instant and on every host the timestamp of a record is the
\* wall-clock time of the instant at UTC+5, as "YYYY-MM-DD HH:MM:SS", in the
\* file format and in the console format alike, whatever the offset of the
\* host.
WallClockAtUtc5(t) ==
  LET f == UtcFields(t + (5 * 3600000))
  IN <<f.year, "-", f.month, "-", f.day, " ", f.hour, ":", f.minute, ":", f.second>>

C14_WallClockAtUtc5 ==
  probe.done =>
     /\ probe.fileStamp = WallClockAtUtc5(probe.now)
     /\ probe.consoleStamp = WallClockAtUtc5(probe.now + probe.delay)

\* C16: when the process has exited, every record of a logging call that
\* returned before the exit (the shutdown messages and the error logged
\* before an exit with code 1 included) is in its file sinks, and the file
\* sinks are closed.
C16_FlushedBeforeExit ==
  proc.pc = "exited" =>
     /\ \A sink \in FileSinks : proc.pending[sink] = <<>>
     /\ proc.closed

\* C17: a record with a metadata value that cannot be serialized is still
\* emitted by every sink that accepts its level, with the field replaced by
\* a stringified placeholder, and the logging call does not raise.
Offending == {k \in DOMAIN last.data : last.data[k] = Circular}

C17_PlaceholderEmitted ==
  (Offending # {} /\ ~last.loggerFailed) =>
     /\ last.outcome = "returned"
     /\ Len(combinedFile) = (IF Accepts(CombinedFileLevel, logLevel, last.level) THEN 1 ELSE 0)
     /\ Len(console) = (IF Accepts(ConsoleLevel, logLevel, last.level) THEN 1 ELSE 0)
     /\ Len(errorFile) = (IF Accepts(ErrorFileLevel, logLevel, last.level) THEN 1 ELSE 0)
     /\ \A i \in 1..Len(AllLines) : \A k \in Offending :
           /\ k \in DOMAIN AllLines[i].meta
           /\ AllLines[i].meta[k] # Circular

\* C18 as stated: logUserAction builds the fields of its record from exactly
\* three sources, a later one overriding an earlier one: the identity fields
\* of the context (userId, username), then details, then the state fields
\* of the context; only the computed caller is applied after the state
\* fields.
Identity(ctx) ==
  [userId |-> Get(ctx.from, "id"), username |-> Get(ctx.from, "username")]

Merged(k, sources) ==
  LET having == {i \in 1..Len(sources) : k \in DOMAIN sources[i]}
  IN sources[Max(having)][k]

BuiltFrom(sources) ==
  /\ DOMAIN last.data = UNION {DOMAIN sources[i] : i \in 1..Len(sources)}
  /\ \A k \in DOMAIN last.data : last.data[k] = Merged(k, sources)

UserActionBuilt == last.op = "logUserAction" /\ last.ctx.kind # "null"

C18_ThreeSources ==
  UserActionBuilt =>
     LET ctx == DefaultCtx(last.ctx)
     IN BuiltFrom(<<Identity(ctx), last.meta, ctx.userState,
                    Field("caller", last.resolved)>>)

\* C18 amended: four sources, in this order: the identity fields of the
\* context, then details, then the state fields of the context
\* (ctx.userState), then the fields of ctx.user; only the computed caller is
\* applied after them.
C18_FourSources ==
  UserActionBuilt =>
     LET ctx == DefaultCtx(last.ctx)
     IN BuiltFrom(<<Identity(ctx), last.meta, ctx.userState, ctx.user,
                    Field("caller", last.resolved)>>)

C18_Witness ==
  /\ last.op = "logUserAction"
  /\ last.issued
  /\ Get(last.meta, "lang") = <<"explicit">>
  /\ Get(last.info, "step") = <<"state">>
  /\ Get(last.info, "lang") = <<"user">>
  /\ Get(last.info, "userId") = <<"1001">>
  /\ Get(last.info, "caller") = AppCaller
  /\ Len(combinedFile) = 1

====
